---- MODULE Spec2Model ----
(***************************************************************************)
(* The JavaScript utility functions of                                     *)
(* programming-fundamentals/javascript-fundamentals/functions.js           *)
(* (isFrontendDeveloper, calculateAverage, calculateAverageWithLoop,       *)
(* countCartItems, removeItemFromCart, meanSquareError) and the jest suite *)
(* that drives                                                             *)
(* them, as a state machine of callers invoking the functions on array     *)
(* objects they own.                                                       *)
(*                                                                         *)
(* A JavaScript number is modelled by the rational it denotes, [n, d] in   *)
(* lowest terms with d > 0, and by the IEEE-754 specials NaN = [0, 0],     *)
(* Infinity = [1, 0], -Infinity = [-1, 0].  The inputs are small dyadic    *)
(* values, for which binary64 addition, subtraction and squaring are exact *)
(* and on which rounding a quotient to binary64 is one-to-one, so a        *)
(* binary64 value is identified by the exact value of the expression.      *)
(*                                                                         *)
(* A third field e gives the magnitude the rational is scaled by: the      *)
(* number is (n / d) * 2^(1023 * e).  Ordinary numbers have e = 0; e = 1   *)
(* are the numbers next to the largest binary64 magnitude (finite below    *)
(* 2^1024, which is |n / d| < 2) and e = -1 those next to the smallest     *)
(* (the multiples of 2^-1074).  A result of 2^1024 or more is an Infinity, *)
(* a product or quotient of scale e = -2 is below half the smallest        *)
(* positive number and rounds to 0, and a sum of numbers of two scales     *)
(* rounds to the operand of the larger scale.                              *)
(***************************************************************************)
EXTENDS Integers, Sequences, FiniteSets, TLC

\* ------------------------------------------------------------------ bounds
\* Longest enumerated numeric array passed to the average functions.
MaxLen == 3
\* Longest enumerated cart.
MaxCart == 2
\* Longest enumerated actual / predicted array.
MaxPair == 2
\* Most calls one caller chains on the same array objects before dropping them.
MaxCalls == 2
\* Longest array passed when the callers' steps are interleaved.
MaxShared == 2
\* Longest array of numbers at the limits of the binary64 range.
MaxLimit == 2

\* ------------------------------------------------------ JavaScript numbers
Abs(x) == IF x < 0 THEN -x ELSE x

Sign(x) == IF x < 0 THEN -1 ELSE IF x > 0 THEN 1 ELSE 0

RECURSIVE GCD(_, _)
GCD(a, b) == IF b = 0 THEN a ELSE GCD(b, a % b)

\* The number n/d (d may be negative); x/0 is NaN or a signed Infinity.
Norm(n, d) ==
    IF d = 0 THEN [n |-> Sign(n), d |-> 0, e |-> 0]
    ELSE LET g == GCD(Abs(n), Abs(d))
         IN  [n |-> Sign(d) * (n \div g), d |-> Abs(d) \div g, e |-> 0]

Num(k) == [n |-> k, d |-> 1, e |-> 0]

Zero == Num(0)

NaN == [n |-> 0, d |-> 0, e |-> 0]

\* The binary64 value nearest to (n / d) * 2^(1023 * e): an Infinity from
\* 2^1024 on, 0 below half of 2^-1074.
Round(n, d, e) ==
    LET q == Norm(n, d)
    IN  IF q.d = 0 \/ q.n = 0 THEN q
        ELSE IF e > 1 \/ (e = 1 /\ Abs(q.n) >= 2 * q.d) THEN Norm(Sign(q.n), 0)
        ELSE IF e < -1 THEN Zero
        ELSE [q EXCEPT !.e = e]

\* 2^1023, the largest power of two of binary64, and 2^-1023.
Huge == Round(1, 1, 1)

Tiny == Round(1, 1, -1)

IsNaN(x) == x.d = 0 /\ x.n = 0

IsFinite(x) == x.d > 0

\* x + y
NumAdd(x, y) ==
    IF IsNaN(x) \/ IsNaN(y) THEN NaN
    ELSE IF x.d = 0 /\ y.d = 0 THEN (IF x.n = y.n THEN x ELSE NaN)
    ELSE IF x.d = 0 THEN x
    ELSE IF y.d = 0 THEN y
    ELSE IF x.n = 0 THEN y
    ELSE IF y.n = 0 THEN x
    ELSE IF x.e > y.e THEN x
    ELSE IF y.e > x.e THEN y
    ELSE Round(x.n * y.d + y.n * x.d, x.d * y.d, x.e)

\* x - y
NumSub(x, y) == NumAdd(x, [y EXCEPT !.n = -y.n])

\* x * y
NumMul(x, y) ==
    IF IsNaN(x) \/ IsNaN(y) THEN NaN
    ELSE IF x.d = 0 \/ y.d = 0 THEN Norm(Sign(x.n) * Sign(y.n), 0)
    ELSE Round(x.n * y.n, x.d * y.d, x.e + y.e)

\* x / y
NumDiv(x, y) ==
    IF IsNaN(x) \/ IsNaN(y) THEN NaN
    ELSE IF x.d = 0 /\ y.d = 0 THEN NaN
    ELSE IF x.d = 0 THEN Norm(x.n * (IF y.n < 0 THEN -1 ELSE 1), 0)
    ELSE IF y.d = 0 THEN Zero
    ELSE Round(x.n * y.d, x.d * y.n, x.e - y.e)

\* Faulty variant: x * 2 written for Math.pow(x, 2).
MathPow2Doubles(x) == NumMul(x, Num(2))

\* Math.pow(x, 2)
MathPow2(x) == NumMul(x, x)

\* --------------------------------------------------- other JavaScript values
Undefined == [t |-> "undefined", v |-> ""]

NumberVal(s) == [t |-> "number", v |-> s]

StringVal(s) == [t |-> "string", v |-> s]

\* Faulty variant: a != b, which converts a string to a number before comparing.
LooseNotEquals(a, b) ==
    ~(a.v = b.v /\ (a.t = b.t \/ {a.t, b.t} = {"number", "string"}))

\* Faulty variant: String(a) !== String(b), which compares the values and not the types.
StrictNotEqualsAsStrings(a, b) ==
    LET StringOf(x) == IF x.t = "undefined" THEN "undefined" ELSE x.v
    IN  StringOf(a) # StringOf(b)

\* a !== b on primitive values that are not NaN
StrictNotEquals(a, b) == ~(a.t = b.t /\ a.v = b.v)

BooleanVal(s) == [t |-> "boolean", v |-> s]

\* ToBoolean(a), the conversion an if condition and && apply: false, 0, NaN,
\* "", and undefined are falsy, every other value is truthy.
ToBoolean(a) ==
    CASE a.t = "boolean" -> a.v = "true"
      [] a.t = "number" -> a.v \notin {"0", "NaN"}
      [] a.t = "string" -> a.v # ""
      [] OTHER -> FALSE

\* What a call returns: a number, a reference to an array of the heap, or
\* another value (val); a call that throws leaves the name of the error as
\* the kind.
NoResult == [kind |-> "none", num |-> Zero, ref |-> 0, val |-> Undefined]

NumberResult(x) == [kind |-> "number", num |-> x, ref |-> 0, val |-> Undefined]

ArrayResult(a) == [kind |-> "array", num |-> Zero, ref |-> a, val |-> Undefined]

ValueResult(a) == [kind |-> a.t, num |-> Zero, ref |-> 0, val |-> a]

Thrown(error) == [kind |-> error, num |-> Zero, ref |-> 0, val |-> Undefined]

\* ------------------------------------------------------------------ inputs
SeqsUpTo(S, n) == UNION {[1..k -> S] : k \in 0..n}

\* The jest suite's calculateAverage / calculateAverageWithLoop inputs.
testCases ==
    << <<Num(1), Num(2), Num(3), Num(4), Num(5)>>,
       <<Norm(3, 2), Norm(5, 2), Norm(7, 2)>>,
       <<Num(42)>> >>

\* Element values of the enumerated numeric arrays: -1, 0, 0.5, 1, 1.5, 2.
NumVals == {Norm(k, 2) : k \in {-2, 0, 1, 2, 3, 4}}

NumberArrays == SeqsUpTo(NumVals, MaxLen) \cup {testCases[k] : k \in 1..Len(testCases)}

\* The sample cart: records with a name and a quantity, and no id.
shoppingCart ==
    << [id |-> Undefined, name |-> StringVal("T-shirt"), quantity |-> Num(2)],
       [id |-> Undefined, name |-> StringVal("Jeans"), quantity |-> Num(1)],
       [id |-> Undefined, name |-> StringVal("Socks"), quantity |-> Num(3)] >>

\* Ids a cart record may carry (Undefined: the record has no id property).
ItemIds == {NumberVal("1"), StringVal("1"), Undefined}

Quantities == {Num(0), Num(1), Num(2)}

Items == [id : ItemIds, name : {Undefined}, quantity : Quantities]

Carts == SeqsUpTo(Items, MaxCart) \cup {shoppingCart}

\* Values passed as itemId.
Targets == ItemIds \cup {NumberVal("2"), StringVal("T-shirt")}

\* Values of the html, css and javascript properties (Undefined: the property
\* is missing).
SkillVals ==
    {BooleanVal("true"), BooleanVal("false"), Undefined,
     NumberVal("0"), NumberVal("1"), StringVal(""), StringVal("1")}

\* A user without a frontend property.
NoUser == [frontend |-> Undefined]

\* The sample user, as far as isFrontendDeveloper reads it.
sampleUser ==
    [frontend |-> [html |-> BooleanVal("true"), css |-> BooleanVal("true"),
                   javascript |-> BooleanVal("true")]]

Users ==
    {[frontend |-> f] : f \in [html : SkillVals, css : SkillVals, javascript : SkillVals]}
        \cup {NoUser}

\* Element values of the enumerated actual / predicted arrays: -1, 0, 0.5, 2.
PairVals == {Norm(k, 2) : k \in {-2, 0, 1, 4}}

PairArrays == SeqsUpTo(PairVals, MaxPair)

\* --------------------------------------------- the functions of functions.js
\* Faulty variant: arr.reduce((sum, value) => sum + value, 1), a fold from 1.
ReduceSumFromOne(arr) ==
    LET RECURSIVE Fold(_)
        Fold(k) == IF k = 0 THEN Num(1) ELSE NumAdd(Fold(k - 1), arr[k])
    IN  Fold(Len(arr))

\* arr.reduce((sum, value) => sum + value, 0): a left fold from 0.
ReduceSum(arr) ==
    LET RECURSIVE Fold(_)
        Fold(k) == IF k = 0 THEN Zero ELSE NumAdd(Fold(k - 1), arr[k])
    IN  Fold(Len(arr))

\* Faulty variant: the predicate written with === keeps the matching records.
ArrayFilterKeepsMatching(arr, itemId) ==
    LET RECURSIVE Kept(_)
        Kept(k) == IF k = 0 THEN << >>
                   ELSE IF ~StrictNotEquals(arr[k].id, itemId)
                        THEN Append(Kept(k - 1), arr[k])
                        ELSE Kept(k - 1)
    IN  Kept(Len(arr))

\* Faulty variant: a copy of the cart walked forward with splice(index, 1) on a
\* match, which leaves the record after a removed one untested.
ArrayFilterSkipsAfterRemoval(arr, itemId) ==
    LET RECURSIVE From(_)
        From(k) == IF k > Len(arr) THEN << >>
                   ELSE IF StrictNotEquals(arr[k].id, itemId)
                        THEN <<arr[k]>> \o From(k + 1)
                        ELSE IF k < Len(arr) THEN <<arr[k + 1]>> \o From(k + 2)
                        ELSE << >>
    IN  From(1)

\* cart.filter(item => item.id !== itemId): visits the elements in index
\* order and appends the kept ones to a new array.
ArrayFilter(arr, itemId) ==
    LET RECURSIVE Kept(_)
        Kept(k) == IF k = 0 THEN << >>
                   ELSE IF StrictNotEquals(arr[k].id, itemId)
                        THEN Append(Kept(k - 1), arr[k])
                        ELSE Kept(k - 1)
    IN  Kept(Len(arr))

\* Faulty variant: predicted[index] || 0, a missing element counted as 0.
ElementAtOrZero(arr, index) == IF index \in 1..Len(arr) THEN arr[index] ELSE Zero

\* predicted[index]: undefined past the end, which subtraction converts to NaN.
ElementAt(arr, index) == IF index \in 1..Len(arr) THEN arr[index] ELSE NaN

\* Faulty variant: predicted.map((value, index) => Math.pow(actual[index] - value, 2)),
\* one squared error for every element of predicted.
SquaredErrorsOverPredicted(actualArr, predictedArr) ==
    [index \in 1..Len(predictedArr) |->
        MathPow2(NumSub(ElementAt(actualArr, index), predictedArr[index]))]

\* Faulty variant: actual.map((value, index) => value - predicted[index]), the
\* errors left unsquared.
SquaredErrorsUnsquared(actualArr, predictedArr) ==
    [index \in 1..Len(actualArr) |-> NumSub(actualArr[index], ElementAt(predictedArr, index))]

\* actual.map((value, index) => Math.pow(value - predicted[index], 2))
SquaredErrors(actualArr, predictedArr) ==
    [index \in 1..Len(actualArr) |->
        MathPow2(NumSub(actualArr[index], ElementAt(predictedArr, index)))]

meanSquareError(actualArr, predictedArr) ==
    NumDiv(ReduceSum(SquaredErrors(actualArr, predictedArr)), Num(Len(actualArr)))

\* Faulty variant: cart.slice(0, cart.findIndex(item => item.id === itemId)), which
\* cuts the cart at the first match (findIndex gives -1 when there is none,
\* and slice(0, -1) drops the last record).
removeItemFromCartCutsAtMatch(cartArr, id) ==
    LET matches == {j \in 1..Len(cartArr) : ~StrictNotEquals(cartArr[j].id, id)}
        first == IF matches = {} THEN Len(cartArr)
                 ELSE CHOOSE j \in matches : \A m \in matches : j <= m
    IN  SubSeq(cartArr, 1, first - 1)

\* Faulty variant: cart.filter(item => item.id !== itemId && item.name !== itemId),
\* which takes the name of a record as an identifier too.
removeItemFromCartByIdOrName(cartArr, id) ==
    LET RECURSIVE Kept(_)
        Kept(k) == IF k = 0 THEN << >>
                   ELSE IF StrictNotEquals(cartArr[k].id, id)
                           /\ StrictNotEquals(cartArr[k].name, id)
                        THEN Append(Kept(k - 1), cartArr[k])
                        ELSE Kept(k - 1)
    IN  Kept(Len(cartArr))

\* Faulty variant: the record at cart.findIndex(item => item.id === itemId) left
\* out of a copy, which removes the first match only.
removeItemFromCartFirstMatchOnly(cartArr, id) ==
    LET matches == {j \in 1..Len(cartArr) : ~StrictNotEquals(cartArr[j].id, id)}
    IN  IF matches = {} THEN cartArr
        ELSE LET first == CHOOSE j \in matches : \A m \in matches : j <= m
             IN  SubSeq(cartArr, 1, first - 1) \o SubSeq(cartArr, first + 1, Len(cartArr))

\* Faulty variant: return user.frontend.html && user.frontend.css &&
\* user.frontend.javascript; which returns the operand that decided the &&.
isFrontendDeveloperReturnsOperand(u) ==
    IF u.frontend = Undefined THEN Thrown("TypeError")
    ELSE IF ~ToBoolean(u.frontend.html) THEN ValueResult(u.frontend.html)
    ELSE IF ~ToBoolean(u.frontend.css) THEN ValueResult(u.frontend.css)
    ELSE ValueResult(u.frontend.javascript)

\* if (user.frontend.html && user.frontend.css && user.frontend.javascript)
\* return true; else return false;  (reading html of a missing frontend throws)
isFrontendDeveloper(u) ==
    IF u.frontend = Undefined THEN Thrown("TypeError")
    ELSE IF /\ ToBoolean(u.frontend.html)
            /\ ToBoolean(u.frontend.css)
            /\ ToBoolean(u.frontend.javascript)
         THEN ValueResult(BooleanVal("true"))
         ELSE ValueResult(BooleanVal("false"))

removeItemFromCart(cartArr, id) == ArrayFilter(cartArr, id)

\* Faulty variant: Math.floor(sum / numbers.length), an integer average.
calculateAverageFloors(numbersArr) ==
    LET q == NumDiv(ReduceSum(numbersArr), Num(Len(numbersArr)))
    IN  IF IsFinite(q) THEN Num(q.n \div q.d) ELSE q

\* Faulty variant: the sum divided by numbers.length - 1.
calculateAverageLengthMinusOne(numbersArr) ==
    NumDiv(ReduceSum(numbersArr), Num(Len(numbersArr) - 1))

\* Faulty variant: an empty array answered with 0.
calculateAverageZeroOnEmpty(numbersArr) ==
    IF Len(numbersArr) = 0 THEN Zero
    ELSE NumDiv(ReduceSum(numbersArr), Num(Len(numbersArr)))

\* Faulty variant: the sum returned without the division by numbers.length.
calculateAverageUndivided(numbersArr) == ReduceSum(numbersArr)

calculateAverage(numbersArr) == NumDiv(ReduceSum(numbersArr), Num(Len(numbersArr)))

\* ------------------------------------------------------------------- state
\* The jest tests / callers; each runs to completion before the next starts.
Callers == {"t1", "t2"}

VARIABLES
    op,          \* op[c]: the function caller c is in or has just left
    pc,          \* pc[c]: where caller c is in that function
    calls,       \* calls[c]: calls c has made on its current array objects
    heap,        \* heap[c]: the array objects c's calls refer to, by address
    given,       \* given[c]: the value of each argument array when c built it
    numbers, cart, itemId, actual, predicted,   \* the parameters (addresses)
    user,                                       \* the parameter of isFrontendDeveloper
    total, count, iter,                         \* calculateAverageWithLoop
    totalItems, i,                              \* countCartItems
    result,      \* result[c]: what the call returned
    prev         \* prev[c]: c's previous call on the same arguments

params == <<numbers, cart, itemId, actual, predicted, user>>
avgLocals == <<total, count, iter>>
cntLocals == <<totalItems, i>>
locals == <<total, count, iter, totalItems, i>>
vars == <<op, pc, calls, heap, given, numbers, cart, itemId, actual, predicted, user,
          total, count, iter, totalItems, i, result, prev>>

NoPrev == [op |-> "none", cart |-> 0, itemId |-> Undefined, result |-> NoResult]

Init ==
    /\ op = [c \in Callers |-> "none"]
    /\ pc = [c \in Callers |-> "idle"]
    /\ calls = [c \in Callers |-> 0]
    /\ heap = [c \in Callers |-> << >>]
    /\ given = [c \in Callers |-> << >>]
    /\ numbers = [c \in Callers |-> 0]
    /\ cart = [c \in Callers |-> 0]
    /\ itemId = [c \in Callers |-> Undefined]
    /\ actual = [c \in Callers |-> 0]
    /\ predicted = [c \in Callers |-> 0]
    /\ user = [c \in Callers |-> NoUser]
    /\ total = [c \in Callers |-> Zero]
    /\ count = [c \in Callers |-> 0]
    /\ iter = [c \in Callers |-> 0]
    /\ totalItems = [c \in Callers |-> Zero]
    /\ i = [c \in Callers |-> 0]
    /\ result = [c \in Callers |-> NoResult]
    /\ prev = [c \in Callers |-> NoPrev]

\* ----------------------------------------------------------------- callers
Idle == \A c \in Callers : pc[c] = "idle"

\* Caller c builds the argument arrays `arrays` and calls f on them (the
\* callers start a call only when no caller is in one or holds a result).
Invoke(c, f, arrays, id, pNumbers, pCart, pActual, pPredicted) ==
    /\ op' = [op EXCEPT ![c] = f]
    /\ pc' = [pc EXCEPT ![c] = "entry"]
    /\ calls' = [calls EXCEPT ![c] = 1]
    /\ heap' = [heap EXCEPT ![c] = arrays]
    /\ given' = [given EXCEPT ![c] = arrays]
    /\ numbers' = [numbers EXCEPT ![c] = pNumbers]
    /\ cart' = [cart EXCEPT ![c] = pCart]
    /\ itemId' = [itemId EXCEPT ![c] = id]
    /\ actual' = [actual EXCEPT ![c] = pActual]
    /\ predicted' = [predicted EXCEPT ![c] = pPredicted]
    /\ user' = [user EXCEPT ![c] = NoUser]
    /\ UNCHANGED <<locals, result, prev>>

\* Caller c, holding the result of a call, calls f on the same array objects.
\* Whatever the earlier call left in the locals stays there until the new
\* call's own let statements assign them.
InvokeAgain(c, f, id) ==
    /\ pc[c] = "done"
    /\ calls[c] < MaxCalls
    /\ prev' = [prev EXCEPT ![c] = [op |-> op[c], cart |-> cart[c],
                                    itemId |-> itemId[c], result |-> result[c]]]
    /\ op' = [op EXCEPT ![c] = f]
    /\ pc' = [pc EXCEPT ![c] = "entry"]
    /\ calls' = [calls EXCEPT ![c] = @ + 1]
    /\ itemId' = [itemId EXCEPT ![c] = id]
    /\ result' = [result EXCEPT ![c] = NoResult]
    /\ UNCHANGED <<heap, given, numbers, cart, actual, predicted, user, locals>>

AverageFunctions == {"calculateAverage", "calculateAverageWithLoop"}

CartFunctions == {"countCartItems", "removeItemFromCart"}

\* expect(calculateAverage([...])) / expect(calculateAverageWithLoop([...]))
CallAverage(c) ==
    /\ Idle
    /\ \E f \in AverageFunctions, arr \in NumberArrays :
        Invoke(c, f, <<arr>>, Undefined, 1, 0, 0, 0)

\* calculateAverage(numbers) and calculateAverageWithLoop(numbers) on one array
CallAverageAgain(c) ==
    /\ numbers[c] # 0
    /\ \E f \in AverageFunctions : InvokeAgain(c, f, Undefined)

CallCountCartItems(c) ==
    /\ Idle
    /\ \E arr \in Carts : Invoke(c, "countCartItems", <<arr>>, Undefined, 0, 1, 0, 0)

CallRemoveItemFromCart(c) ==
    /\ Idle
    /\ \E arr \in Carts, id \in Targets :
        Invoke(c, "removeItemFromCart", <<arr>>, id, 0, 1, 0, 0)

CallCartAgain(c) ==
    /\ cart[c] # 0
    /\ \/ InvokeAgain(c, "countCartItems", Undefined)
       \/ \E id \in Targets : InvokeAgain(c, "removeItemFromCart", id)

\* removeItemFromCart(removeItemFromCart(cart, itemId), itemId): the array the
\* call returned is passed back as the cart, with the same itemId.
CallRemoveItemFromCartOnResult(c) ==
    /\ pc[c] = "done"
    /\ op[c] = "removeItemFromCart"
    /\ calls[c] < MaxCalls
    /\ prev' = [prev EXCEPT ![c] = [op |-> op[c], cart |-> cart[c],
                                    itemId |-> itemId[c], result |-> result[c]]]
    /\ pc' = [pc EXCEPT ![c] = "entry"]
    /\ calls' = [calls EXCEPT ![c] = @ + 1]
    /\ cart' = [cart EXCEPT ![c] = result[c].ref]
    /\ result' = [result EXCEPT ![c] = NoResult]
    /\ UNCHANGED <<op, heap, given, numbers, itemId, actual, predicted, user, locals>>

CallMeanSquareError(c) ==
    /\ Idle
    /\ \E a \in PairArrays, p \in PairArrays :
        Invoke(c, "meanSquareError", <<a, p>>, Undefined, 0, 0, 1, 2)

CallMeanSquareErrorAgain(c) ==
    /\ actual[c] # 0
    /\ InvokeAgain(c, "meanSquareError", Undefined)

\* isFrontendDeveloper(user)
CallIsFrontendDeveloper(c) ==
    /\ Idle
    /\ \E u \in Users : user' = [user EXCEPT ![c] = u]
    /\ op' = [op EXCEPT ![c] = "isFrontendDeveloper"]
    /\ pc' = [pc EXCEPT ![c] = "entry"]
    /\ calls' = [calls EXCEPT ![c] = 1]
    /\ UNCHANGED <<heap, given, numbers, cart, itemId, actual, predicted, locals,
                   result, prev>>

\* The caller drops the result and the arrays.
Reset(c) ==
    /\ pc[c] = "done"
    /\ op' = [op EXCEPT ![c] = "none"]
    /\ pc' = [pc EXCEPT ![c] = "idle"]
    /\ calls' = [calls EXCEPT ![c] = 0]
    /\ heap' = [heap EXCEPT ![c] = << >>]
    /\ given' = [given EXCEPT ![c] = << >>]
    /\ numbers' = [numbers EXCEPT ![c] = 0]
    /\ cart' = [cart EXCEPT ![c] = 0]
    /\ itemId' = [itemId EXCEPT ![c] = Undefined]
    /\ actual' = [actual EXCEPT ![c] = 0]
    /\ predicted' = [predicted EXCEPT ![c] = 0]
    /\ user' = [user EXCEPT ![c] = NoUser]
    /\ total' = [total EXCEPT ![c] = Zero]
    /\ count' = [count EXCEPT ![c] = 0]
    /\ iter' = [iter EXCEPT ![c] = 0]
    /\ totalItems' = [totalItems EXCEPT ![c] = Zero]
    /\ i' = [i EXCEPT ![c] = 0]
    /\ result' = [result EXCEPT ![c] = NoResult]
    /\ prev' = [prev EXCEPT ![c] = NoPrev]

\* --------------------------------------------------------- function bodies
At(c, f, where) == op[c] = f /\ pc[c] = where

Return(c, value) ==
    /\ result' = [result EXCEPT ![c] = value]
    /\ pc' = [pc EXCEPT ![c] = "done"]

\* return numbers.reduce((sum, num) => sum + num, 0) / numbers.length;
AverageBody(c) ==
    /\ At(c, "calculateAverage", "entry")
    /\ Return(c, NumberResult(calculateAverage(heap[c][numbers[c]])))
    /\ UNCHANGED <<op, calls, heap, given, params, locals, prev>>

\* Faulty variant: let count = 1;
LoopInitCountOne(c) ==
    /\ At(c, "calculateAverageWithLoop", "entry")
    /\ total' = [total EXCEPT ![c] = Zero]
    /\ count' = [count EXCEPT ![c] = 1]
    /\ iter' = [iter EXCEPT ![c] = 0]
    /\ pc' = [pc EXCEPT ![c] = "loop"]
    /\ UNCHANGED <<op, calls, heap, given, params, cntLocals, result, prev>>

\* Faulty variant: total declared once outside the function, so that a call
\* starts from the total the call before it left.
LoopInitKeepsTotal(c) ==
    /\ At(c, "calculateAverageWithLoop", "entry")
    /\ count' = [count EXCEPT ![c] = 0]
    /\ iter' = [iter EXCEPT ![c] = 0]
    /\ pc' = [pc EXCEPT ![c] = "loop"]
    /\ UNCHANGED <<op, calls, heap, given, params, total, cntLocals, result, prev>>

\* let total = 0; let count = 0; and the iterator of for (const num of numbers)
LoopInit(c) ==
    /\ At(c, "calculateAverageWithLoop", "entry")
    /\ total' = [total EXCEPT ![c] = Zero]
    /\ count' = [count EXCEPT ![c] = 0]
    /\ iter' = [iter EXCEPT ![c] = 0]
    /\ pc' = [pc EXCEPT ![c] = "loop"]
    /\ UNCHANGED <<op, calls, heap, given, params, cntLocals, result, prev>>

\* Faulty variant: one total shared by all invocations (declared outside the
\* function), so that an iteration of one call adds into every call's total.
LoopIterSharedTotal(c) ==
    /\ At(c, "calculateAverageWithLoop", "loop")
    /\ iter[c] < Len(heap[c][numbers[c]])
    /\ LET num == heap[c][numbers[c]][iter[c] + 1]
       IN  total' = [d \in Callers |-> NumAdd(total[c], num)]
    /\ count' = [count EXCEPT ![c] = @ + 1]
    /\ iter' = [iter EXCEPT ![c] = @ + 1]
    /\ UNCHANGED <<op, pc, calls, heap, given, params, cntLocals, result, prev>>

\* Faulty variant: total += num; if (num) count++; which leaves a 0 uncounted.
LoopIterSkipsZero(c) ==
    /\ At(c, "calculateAverageWithLoop", "loop")
    /\ iter[c] < Len(heap[c][numbers[c]])
    /\ LET num == heap[c][numbers[c]][iter[c] + 1]
       IN  /\ total' = [total EXCEPT ![c] = NumAdd(@, num)]
           /\ count' = [count EXCEPT ![c] = IF num.n = 0 THEN @ ELSE @ + 1]
    /\ iter' = [iter EXCEPT ![c] = @ + 1]
    /\ UNCHANGED <<op, pc, calls, heap, given, params, cntLocals, result, prev>>

\* one iteration: total += num; count++;
LoopIter(c) ==
    /\ At(c, "calculateAverageWithLoop", "loop")
    /\ iter[c] < Len(heap[c][numbers[c]])
    /\ LET num == heap[c][numbers[c]][iter[c] + 1]
       IN  total' = [total EXCEPT ![c] = NumAdd(@, num)]
    /\ count' = [count EXCEPT ![c] = @ + 1]
    /\ iter' = [iter EXCEPT ![c] = @ + 1]
    /\ UNCHANGED <<op, pc, calls, heap, given, params, cntLocals, result, prev>>

\* Faulty variant: return total / count || 0;
LoopReturnOrZero(c) ==
    /\ At(c, "calculateAverageWithLoop", "loop")
    /\ ~(iter[c] < Len(heap[c][numbers[c]]))
    /\ Return(c, NumberResult(IF IsNaN(NumDiv(total[c], Num(count[c]))) THEN Zero
                              ELSE NumDiv(total[c], Num(count[c]))))
    /\ UNCHANGED <<op, calls, heap, given, params, locals, prev>>

\* the iterator is exhausted: return total / count;
LoopReturn(c) ==
    /\ At(c, "calculateAverageWithLoop", "loop")
    /\ ~(iter[c] < Len(heap[c][numbers[c]]))
    /\ Return(c, NumberResult(NumDiv(total[c], Num(count[c]))))
    /\ UNCHANGED <<op, calls, heap, given, params, locals, prev>>

\* Faulty variant: let i = 1
CountInitFromOne(c) ==
    /\ At(c, "countCartItems", "entry")
    /\ totalItems' = [totalItems EXCEPT ![c] = Zero]
    /\ i' = [i EXCEPT ![c] = 1]
    /\ pc' = [pc EXCEPT ![c] = "loop"]
    /\ UNCHANGED <<op, calls, heap, given, params, avgLocals, result, prev>>

\* let totalItems = 0; let i = 0
CountInit(c) ==
    /\ At(c, "countCartItems", "entry")
    /\ totalItems' = [totalItems EXCEPT ![c] = Zero]
    /\ i' = [i EXCEPT ![c] = 0]
    /\ pc' = [pc EXCEPT ![c] = "loop"]
    /\ UNCHANGED <<op, calls, heap, given, params, avgLocals, result, prev>>

\* Faulty variant: i <= cart.length
CountLoopTestInclusive(c) == i[c] <= Len(heap[c][cart[c]])

\* the loop condition i < cart.length
CountLoopTest(c) == i[c] < Len(heap[c][cart[c]])

\* Faulty variant: i += 2
CountIterStepsTwo(c) ==
    /\ At(c, "countCartItems", "loop")
    /\ CountLoopTest(c)
    /\ totalItems' = [totalItems EXCEPT ![c] =
                          NumAdd(@, heap[c][cart[c]][i[c] + 1].quantity)]
    /\ i' = [i EXCEPT ![c] = @ + 2]
    /\ UNCHANGED <<op, pc, calls, heap, given, params, avgLocals, result, prev>>

\* Faulty variant: totalItems = cart[i].quantity, an assignment for the +=.
CountIterAssigns(c) ==
    /\ At(c, "countCartItems", "loop")
    /\ CountLoopTest(c)
    /\ totalItems' = [totalItems EXCEPT ![c] = heap[c][cart[c]][i[c] + 1].quantity]
    /\ i' = [i EXCEPT ![c] = @ + 1]
    /\ UNCHANGED <<op, pc, calls, heap, given, params, avgLocals, result, prev>>

\* the condition holds: totalItems += cart[i].quantity; i++ (cart[i] is
\* undefined past the end, and reading its quantity throws a TypeError)
CountIter(c) ==
    /\ At(c, "countCartItems", "loop")
    /\ CountLoopTest(c)
    /\ IF i[c] + 1 \in 1..Len(heap[c][cart[c]])
       THEN /\ totalItems' = [totalItems EXCEPT ![c] =
                                  NumAdd(@, heap[c][cart[c]][i[c] + 1].quantity)]
            /\ i' = [i EXCEPT ![c] = @ + 1]
            /\ UNCHANGED <<pc, result>>
       ELSE /\ Return(c, Thrown("TypeError"))
            /\ UNCHANGED <<totalItems, i>>
    /\ UNCHANGED <<op, calls, heap, given, params, avgLocals, prev>>

\* the condition fails: return totalItems;
CountReturn(c) ==
    /\ At(c, "countCartItems", "loop")
    /\ ~CountLoopTest(c)
    /\ Return(c, NumberResult(totalItems[c]))
    /\ UNCHANGED <<op, calls, heap, given, params, locals, prev>>

\* Faulty variant: the matching records spliced out of cart itself, and cart returned.
RemoveBodyInPlace(c) ==
    /\ At(c, "removeItemFromCart", "entry")
    /\ heap' = [heap EXCEPT ![c][cart[c]] = removeItemFromCart(heap[c][cart[c]], itemId[c])]
    /\ Return(c, ArrayResult(cart[c]))
    /\ UNCHANGED <<op, calls, given, params, locals, prev>>

\* return cart.filter(item => item.id !== itemId); filter allocates its result
RemoveBody(c) ==
    /\ At(c, "removeItemFromCart", "entry")
    /\ heap' = [heap EXCEPT ![c] = Append(@, removeItemFromCart(heap[c][cart[c]], itemId[c]))]
    /\ Return(c, ArrayResult(Len(heap[c]) + 1))
    /\ UNCHANGED <<op, calls, given, params, locals, prev>>

\* return actual.map(...).reduce(...) / actual.length;
MeanSquareErrorBody(c) ==
    /\ At(c, "meanSquareError", "entry")
    /\ Return(c, NumberResult(meanSquareError(heap[c][actual[c]], heap[c][predicted[c]])))
    /\ UNCHANGED <<op, calls, heap, given, params, locals, prev>>

\* the if statement and its two return statements
IsFrontendDeveloperBody(c) ==
    /\ At(c, "isFrontendDeveloper", "entry")
    /\ Return(c, isFrontendDeveloper(user[c]))
    /\ UNCHANGED <<op, calls, heap, given, params, locals, prev>>

\* One step of the function caller c is in.
FunctionStep(c) ==
    \/ AverageBody(c)
    \/ LoopInit(c)
    \/ LoopIter(c)
    \/ LoopReturn(c)
    \/ CountInit(c)
    \/ CountIter(c)
    \/ CountReturn(c)
    \/ RemoveBody(c)
    \/ MeanSquareErrorBody(c)
    \/ IsFrontendDeveloperBody(c)

Next ==
    \E c \in Callers :
        \/ CallAverage(c)
        \/ CallAverageAgain(c)
        \/ CallCountCartItems(c)
        \/ CallRemoveItemFromCart(c)
        \/ CallCartAgain(c)
        \/ CallRemoveItemFromCartOnResult(c)
        \/ CallMeanSquareError(c)
        \/ CallMeanSquareErrorAgain(c)
        \/ CallIsFrontendDeveloper(c)
        \/ Reset(c)
        \/ AverageBody(c)
        \/ LoopInit(c)
        \/ LoopIter(c)
        \/ LoopReturn(c)
        \/ CountInit(c)
        \/ CountIter(c)
        \/ CountReturn(c)
        \/ RemoveBody(c)
        \/ MeanSquareErrorBody(c)
        \/ IsFrontendDeveloperBody(c)

Spec == Init /\ [][Next]_vars

\* ------------------------------------------------------- interleaved callers
\* The same functions with the callers' steps interleaved: a caller may start
\* a call while another is in the middle of one.  The arrays are small.
SharedNumberArrays == SeqsUpTo({Norm(1, 2), Num(1)}, MaxShared)

SharedCarts ==
    SeqsUpTo({[id |-> NumberVal("1"), name |-> Undefined, quantity |-> Num(1)],
              [id |-> StringVal("1"), name |-> Undefined, quantity |-> Num(2)]}, MaxShared)

StartAverage(c) ==
    /\ pc[c] = "idle"
    /\ \E f \in AverageFunctions, arr \in SharedNumberArrays :
           Invoke(c, f, <<arr>>, Undefined, 1, 0, 0, 0)

StartCountCartItems(c) ==
    /\ pc[c] = "idle"
    /\ \E arr \in SharedCarts : Invoke(c, "countCartItems", <<arr>>, Undefined, 0, 1, 0, 0)

StartRemoveItemFromCart(c) ==
    /\ pc[c] = "idle"
    /\ \E arr \in SharedCarts :
           Invoke(c, "removeItemFromCart", <<arr>>, NumberVal("1"), 0, 1, 0, 0)

StartMeanSquareError(c) ==
    /\ pc[c] = "idle"
    /\ \E a \in SharedNumberArrays, p \in SharedNumberArrays :
           /\ Len(a) = Len(p)
           /\ Invoke(c, "meanSquareError", <<a, p>>, Undefined, 0, 0, 1, 2)

NextInterleaved ==
    \E c \in Callers :
        \/ StartAverage(c)
        \/ StartCountCartItems(c)
        \/ StartRemoveItemFromCart(c)
        \/ StartMeanSquareError(c)
        \/ Reset(c)
        \/ AverageBody(c)
        \/ LoopInit(c)
        \/ LoopIter(c)
        \/ LoopReturn(c)
        \/ CountInit(c)
        \/ CountIter(c)
        \/ CountReturn(c)
        \/ RemoveBody(c)
        \/ MeanSquareErrorBody(c)

SpecInterleaved == Init /\ [][NextInterleaved]_vars

\* ------------------------------------- numbers at the limits of the range
\* The functions called on ordinary numbers together with numbers of the
\* largest and the smallest binary64 magnitudes, one call at a time.
LimitVals == {Num(-1), Zero, Num(1), Tiny, Huge, NumSub(Zero, Huge)}

LimitArrays == SeqsUpTo(LimitVals, MaxLimit)

\* Elements of actual / predicted: 0, 1, 2^-1023, 2^1023.
LimitPairArrays == SeqsUpTo({Zero, Num(1), Tiny, Huge}, MaxLimit)

StartAverageAtLimits(c) ==
    /\ Idle
    /\ \E f \in AverageFunctions, arr \in LimitArrays :
           Invoke(c, f, <<arr>>, Undefined, 1, 0, 0, 0)

StartMeanSquareErrorAtLimits(c) ==
    /\ Idle
    /\ \E a \in LimitPairArrays, p \in LimitPairArrays :
           Invoke(c, "meanSquareError", <<a, p>>, Undefined, 0, 0, 1, 2)

\* Carts with ordinary quantities and with quantities of the largest
\* magnitude, the sample cart, and a cart whose large quantities cancel.
LimitItems ==
    [id : {NumberVal("1")}, name : {Undefined},
     quantity : {Num(1), Num(2), Huge, NumSub(Zero, Huge)}]

cancellingCart ==
    << [id |-> NumberVal("1"), name |-> Undefined, quantity |-> Num(1)],
       [id |-> NumberVal("1"), name |-> Undefined, quantity |-> Huge],
       [id |-> NumberVal("1"), name |-> Undefined, quantity |-> NumSub(Zero, Huge)] >>

LimitCarts == SeqsUpTo(LimitItems, MaxLimit) \cup {shoppingCart, cancellingCart}

\* countCartItems(cart), while the other callers hold at most the count of
\* the cart they started with.
StartCountCartItemsAtLimits(c) ==
    /\ pc[c] = "idle"
    /\ \A d \in Callers \ {c} :
           pc[d] = "idle" \/ (pc[d] = "done" /\ op[d] = "countCartItems" /\ calls[d] = 1)
    /\ \E arr \in LimitCarts : Invoke(c, "countCartItems", <<arr>>, Undefined, 0, 1, 0, 0)

\* Caller c, holding the count of the cart it started with, calls
\* countCartItems again on the new array `arr` (one caller at a time does).
CountAnother(c, arr) ==
    /\ pc[c] = "done"
    /\ op[c] = "countCartItems"
    /\ calls[c] < MaxCalls
    /\ cart[c] = 1
    /\ \A d \in Callers \ {c} : calls[d] <= 1
    /\ prev' = [prev EXCEPT ![c] = [op |-> op[c], cart |-> cart[c],
                                    itemId |-> itemId[c], result |-> result[c]]]
    /\ heap' = [heap EXCEPT ![c] = Append(@, arr)]
    /\ given' = [given EXCEPT ![c] = Append(@, arr)]
    /\ cart' = [cart EXCEPT ![c] = Len(heap[c]) + 1]
    /\ pc' = [pc EXCEPT ![c] = "entry"]
    /\ calls' = [calls EXCEPT ![c] = @ + 1]
    /\ result' = [result EXCEPT ![c] = NoResult]
    /\ UNCHANGED <<op, numbers, itemId, actual, predicted, user, locals>>

\* countCartItems([...a, ...b]) after countCartItems(a), b being the cart
\* another caller holds the count of.
CallCountCartItemsOnConcatenation(c) ==
    \E d \in Callers \ {c} :
        /\ pc[d] = "done"
        /\ op[d] = "countCartItems"
        /\ CountAnother(c, heap[c][cart[c]] \o heap[d][cart[d]])

\* countCartItems on the records of the cart in another order, by a caller
\* on its own.
CallCountCartItemsOnPermutation(c) ==
    /\ cart[c] = 1
    /\ pc[c] = "done"
    /\ \A d \in Callers \ {c} : pc[d] = "idle"
    /\ \E p \in Permutations(1..Len(heap[c][cart[c]])) :
           LET reordered == [k \in 1..Len(heap[c][cart[c]]) |-> heap[c][cart[c]][p[k]]]
           IN  /\ reordered # heap[c][cart[c]]
               /\ CountAnother(c, reordered)

NextLimits ==
    \E c \in Callers :
        \/ StartAverageAtLimits(c)
        \/ StartMeanSquareErrorAtLimits(c)
        \/ StartCountCartItemsAtLimits(c)
        \/ CallCountCartItemsOnConcatenation(c)
        \/ CallCountCartItemsOnPermutation(c)
        \/ Reset(c)
        \/ AverageBody(c)
        \/ LoopInit(c)
        \/ LoopIter(c)
        \/ LoopReturn(c)
        \/ CountInit(c)
        \/ CountIter(c)
        \/ CountReturn(c)
        \/ MeanSquareErrorBody(c)

SpecLimits == Init /\ [][NextLimits]_vars

\* -------------------------------------------------------------- properties
\* What the properties below read off a state.
Done(c, f) == pc[c] = "done" /\ op[c] = f

\* The array caller c passed as numbers / cart / actual / predicted.
NumbersOf(c) == heap[c][numbers[c]]
CartOf(c) == heap[c][cart[c]]
ActualOf(c) == heap[c][actual[c]]
PredictedOf(c) == heap[c][predicted[c]]

\* Integer sum of f over the index set S.
RECURSIVE SumOver(_, _)
SumOver(f, S) ==
    IF S = {} THEN 0
    ELSE LET k == CHOOSE k \in S : TRUE IN f[k] + SumOver(f, S \ {k})

\* A finite number whose denominator divides 2, counted in halves.
Halves(x) == (2 * x.n) \div x.d

\* r = (S[1] + ... + S[n]) / n, stated on integers: r * 2n = sum of the halves.
IsMeanOf(r, S) ==
    /\ IsFinite(r)
    /\ r.n * 2 * Len(S) = r.d * SumOver([k \in 1..Len(S) |-> Halves(S[k])], 1..Len(S))

\* C1: for every non-empty numeric array, calculateAverage (reduce) and
\* calculateAverageWithLoop (for-of accumulation), called one after the other
\* on the same array, return the same value.
C1_AverageImplementationsAgree ==
    \A c \in Callers :
        ( /\ pc[c] = "done"
          /\ op[c] \in AverageFunctions
          /\ prev[c].op \in AverageFunctions
          /\ prev[c].op # op[c]
          /\ Len(NumbersOf(c)) > 0 )
        => result[c] = prev[c].result

\* Both implementations have run on [1.5, 2.5, 3.5], the loop last.
C1_Witness ==
    \E c \in Callers :
        /\ Done(c, "calculateAverageWithLoop")
        /\ prev[c].op = "calculateAverage"
        /\ NumbersOf(c) = testCases[2]
        /\ result[c] = NumberResult(Norm(5, 2))

\* C2: for every non-empty numeric array both calculateAverage and
\* calculateAverageWithLoop return the arithmetic mean, the sum of the elements
\* divided by their number; the average of [1, 2, 3, 4, 5] is 3.
C2_AverageIsArithmeticMean ==
    \A c \in Callers :
        (pc[c] = "done" /\ op[c] \in AverageFunctions /\ Len(NumbersOf(c)) > 0)
        => /\ result[c].kind = "number"
           /\ IsMeanOf(result[c].num, NumbersOf(c))
           /\ NumbersOf(c) = testCases[1] => result[c].num = Num(3)

\* calculateAverage has returned 3 for [1, 2, 3, 4, 5].
C2_Witness ==
    \E c \in Callers :
        /\ Done(c, "calculateAverage")
        /\ NumbersOf(c) = testCases[1]
        /\ result[c] = NumberResult(Num(3))

\* C3 as claimed: the average of the empty array reports an InvalidArgument
\* failure (and is never 0), in both implementations.
C3_EmptyAverageReportsInvalidArgument ==
    \A c \in Callers :
        (pc[c] = "done" /\ op[c] \in AverageFunctions /\ Len(NumbersOf(c)) = 0)
        => /\ result[c].kind = "InvalidArgument"
           /\ result[c] # NumberResult(Zero)

\* C3 as amended: the average of the empty array is the number NaN (0 / 0),
\* returned like any other result with no failure reported, and never 0, in
\* both implementations.
C3_EmptyAverageIsNaN ==
    \A c \in Callers :
        (pc[c] = "done" /\ op[c] \in AverageFunctions /\ Len(NumbersOf(c)) = 0)
        => /\ result[c].kind = "number"
           /\ IsNaN(result[c].num)
           /\ result[c] # NumberResult(Zero)

\* Both implementations have returned NaN for [].
C3_Witness ==
    \E c \in Callers :
        /\ Done(c, "calculateAverageWithLoop")
        /\ prev[c].op = "calculateAverage"
        /\ NumbersOf(c) = << >>
        /\ result[c] = NumberResult(NaN)
        /\ prev[c].result = NumberResult(NaN)

\* The positions of R whose record carries an id other than x.
KeptPositions(R, x) == {j \in 1..Len(R) : R[j].id # x}

\* How many records of R carry the id x.
Occurrences(R, x) == Cardinality({j \in 1..Len(R) : R[j].id = x})

\* r is R without the records whose id is x: the k-th record of r is the
\* record at the k-th kept position of R.
IsStableFilterOf(r, R, x) ==
    /\ Len(r) = Cardinality(KeptPositions(R, x))
    /\ \A j \in KeptPositions(R, x) :
           r[Cardinality({m \in KeptPositions(R, x) : m <= j})] = R[j]

\* The array removeItemFromCart returned to caller c.
RemovedOf(c) == heap[c][result[c].ref]

\* C4: removeItemFromCart(R, x) returns exactly the records of R whose id
\* differs from x, in their order in R: none with id x remains, and no other
\* record is dropped, duplicated or moved.
C4_RemoveIsStableFilter ==
    \A c \in Callers :
        Done(c, "removeItemFromCart")
        => /\ result[c].kind = "array"
           /\ IsStableFilterOf(RemovedOf(c), CartOf(c), itemId[c])
           /\ \A k \in 1..Len(RemovedOf(c)) : RemovedOf(c)[k].id # itemId[c]

\* The first of two records with different ids has been removed, the second kept.
C4_Witness ==
    \E c \in Callers :
        /\ Done(c, "removeItemFromCart")
        /\ Len(CartOf(c)) = 2
        /\ CartOf(c)[1].id = itemId[c]
        /\ CartOf(c)[2].id # itemId[c]
        /\ RemovedOf(c) = <<CartOf(c)[2]>>

\* C5: when no record of R carries the id x, removeItemFromCart(R, x) equals R
\* by value.
C5_RemoveAbsentIdIsIdentity ==
    \A c \in Callers :
        (Done(c, "removeItemFromCart") /\ Occurrences(CartOf(c), itemId[c]) = 0)
        => RemovedOf(c) = CartOf(c)

\* A two-record cart has been filtered by an id neither record carries.
C5_Witness ==
    \E c \in Callers :
        /\ Done(c, "removeItemFromCart")
        /\ Len(CartOf(c)) = 2
        /\ Occurrences(CartOf(c), itemId[c]) = 0
        /\ RemovedOf(c) = CartOf(c)

\* C6: when exactly one record of R carries the id x, removeItemFromCart(R, x)
\* is one record shorter than R.
C6_RemoveOnceShortensByOne ==
    \A c \in Callers :
        (Done(c, "removeItemFromCart") /\ Occurrences(CartOf(c), itemId[c]) = 1)
        => Len(RemovedOf(c)) = Len(CartOf(c)) - 1

\* The id of the second of two records, carried by no other, has been removed.
C6_Witness ==
    \E c \in Callers :
        /\ Done(c, "removeItemFromCart")
        /\ Len(CartOf(c)) = 2
        /\ Occurrences(CartOf(c), itemId[c]) = 1
        /\ CartOf(c)[2].id = itemId[c]
        /\ Len(RemovedOf(c)) = 1

\* C7: no function changes its arguments: at every step of every call each
\* argument array holds the value it was given with, and removeItemFromCart
\* returns a newly allocated array, not an argument or an earlier result.
C7_InputsNeverMutated ==
    \A c \in Callers :
        /\ Len(heap[c]) >= Len(given[c])
        /\ \A a \in 1..Len(given[c]) : heap[c][a] = given[c][a]
        /\ Done(c, "removeItemFromCart")
           => /\ result[c].kind = "array"
              /\ result[c].ref = Len(heap[c])
              /\ result[c].ref > Len(given[c])
              /\ prev[c].result.kind = "array" => result[c].ref # prev[c].result.ref

\* removeItemFromCart has dropped a record, and the cart passed in still has it.
C7_Witness ==
    \E c \in Callers :
        /\ Done(c, "removeItemFromCart")
        /\ Len(RemovedOf(c)) < Len(CartOf(c))
        /\ CartOf(c) = given[c][1]
        /\ result[c].ref # cart[c]

\* The quantity of a record, as an integer.
QuantityOf(item) == item.quantity.n \div item.quantity.d

\* C8: for carts whose quantities are non-negative integers countCartItems
\* returns the sum of the quantities; quantities 2, 1, 3 give 6.
C8_CountIsSumOfQuantities ==
    \A c \in Callers :
        Done(c, "countCartItems")
        => /\ result[c] = NumberResult(Num(SumOver([k \in 1..Len(CartOf(c)) |->
                                QuantityOf(CartOf(c)[k])], 1..Len(CartOf(c)))))
           /\ CartOf(c) = shoppingCart => result[c].num = Num(6)

\* countCartItems has returned 6 for the sample cart.
C8_Witness ==
    \E c \in Callers :
        /\ Done(c, "countCartItems")
        /\ CartOf(c) = shoppingCart
        /\ result[c] = NumberResult(Num(6))

\* C9: countCartItems of the empty cart returns 0: the loop body is never
\* entered and no error is raised.
C9_CountOfEmptyCartIsZero ==
    \A c \in Callers :
        (Done(c, "countCartItems") /\ Len(CartOf(c)) = 0)
        => /\ result[c] = NumberResult(Zero)
           /\ i[c] = 0

\* countCartItems has returned for the empty cart.
C9_Witness ==
    \E c \in Callers :
        /\ Done(c, "countCartItems")
        /\ CartOf(c) = << >>
        /\ result[c] = NumberResult(Zero)

\* r = ((a[1] - p[1])^2 + ... + (a[n] - p[n])^2) / n, stated on integers:
\* with the differences counted in halves, r * 4n = the sum of their squares.
IsMeanSquareOf(r, a, p) ==
    /\ IsFinite(r)
    /\ r.n * 4 * Len(a) =
           r.d * SumOver([k \in 1..Len(a) |->
                             (Halves(a[k]) - Halves(p[k])) * (Halves(a[k]) - Halves(p[k]))],
                         1..Len(a))

\* C10: for non-empty actual and predicted of equal length n, meanSquareError
\* returns the sum of the squared differences (actual[k] - predicted[k])^2
\* divided by n.
C10_MeanSquareErrorIsMeanOfSquares ==
    \A c \in Callers :
        ( /\ Done(c, "meanSquareError")
          /\ Len(ActualOf(c)) > 0
          /\ Len(ActualOf(c)) = Len(PredictedOf(c)) )
        => /\ result[c].kind = "number"
           /\ IsMeanSquareOf(result[c].num, ActualOf(c), PredictedOf(c))

\* meanSquareError([2, 0.5], [-1, 0]) has returned (9 + 0.25) / 2 = 37/8.
C10_Witness ==
    \E c \in Callers :
        /\ Done(c, "meanSquareError")
        /\ ActualOf(c) = <<Num(2), Norm(1, 2)>>
        /\ PredictedOf(c) = <<Num(-1), Zero>>
        /\ result[c] = NumberResult(Norm(37, 8))

\* C11 as claimed: when actual and predicted differ in length, meanSquareError
\* reports a LengthMismatch failure instead of returning a numeric value.
C11_LengthMismatchIsReported ==
    \A c \in Callers :
        (Done(c, "meanSquareError") /\ Len(ActualOf(c)) # Len(PredictedOf(c)))
        => result[c].kind = "LengthMismatch"

\* C11 as amended: when actual and predicted differ in length, meanSquareError
\* reports no failure and returns a number: a finite one when predicted is the
\* longer array and actual is not empty, and NaN when predicted is the shorter
\* array or actual is empty.
C11_LengthMismatchReturnsNumber ==
    \A c \in Callers :
        (Done(c, "meanSquareError") /\ Len(ActualOf(c)) # Len(PredictedOf(c)))
        => /\ result[c].kind = "number"
           /\ IF Len(ActualOf(c)) > 0 /\ Len(PredictedOf(c)) > Len(ActualOf(c))
              THEN IsFinite(result[c].num)
              ELSE IsNaN(result[c].num)

\* meanSquareError has returned NaN for a two-element actual and a one-element
\* predicted.
C11_Witness ==
    \E c \in Callers :
        /\ Done(c, "meanSquareError")
        /\ Len(ActualOf(c)) = 2
        /\ Len(PredictedOf(c)) = 1
        /\ result[c] = NumberResult(NaN)

NumericFunctions == AverageFunctions \cup {"countCartItems", "meanSquareError"}

\* The inputs on which the quotient a numeric function returns is 0 / 0 or has
\* a NaN dividend: an empty numbers, an empty actual, a predicted shorter than
\* actual.
HasNoMean(c) ==
    \/ op[c] \in AverageFunctions /\ Len(NumbersOf(c)) = 0
    \/ /\ op[c] = "meanSquareError"
       /\ (Len(ActualOf(c)) = 0 \/ Len(PredictedOf(c)) < Len(ActualOf(c)))

\* C12 as claimed: on every input, empty arrays included, each numeric
\* function yields a finite number or an explicit failure, never NaN.
C12_FiniteOrExplicitFailure ==
    \A c \in Callers :
        (pc[c] = "done" /\ op[c] \in NumericFunctions)
        => \/ result[c].kind = "number" /\ IsFinite(result[c].num)
           \/ result[c].kind \notin {"number", "array", "none"}

\* C12 as amended: no numeric function ever signals a failure; each returns a
\* number, which is finite except that both average functions return NaN for
\* the empty array and meanSquareError returns NaN when actual is empty or
\* predicted is shorter than actual; countCartItems is always finite.
C12_FiniteOrSilentNaN ==
    \A c \in Callers :
        (pc[c] = "done" /\ op[c] \in NumericFunctions)
        => /\ result[c].kind = "number"
           /\ IF HasNoMean(c) THEN IsNaN(result[c].num) ELSE IsFinite(result[c].num)

\* calculateAverageWithLoop and, before it, calculateAverage have returned NaN
\* for the empty array as an ordinary number.
C12_Witness ==
    \E c \in Callers :
        /\ Done(c, "calculateAverageWithLoop")
        /\ Len(NumbersOf(c)) = 0
        /\ result[c].kind = "number"
        /\ IsNaN(result[c].num)
        /\ prev[c].op = "calculateAverage"
        /\ prev[c].result.kind = "number"

\* The value a call returned: the number, or the array the reference leads to.
ValueOf(c, r) == IF r.kind = "array" THEN heap[c][r.ref] ELSE r.num

\* C13: every function is deterministic: called a second time on the same
\* arguments it returns the same value as the first time, whatever the first
\* call left behind.
C13_SecondCallSameResult ==
    \A c \in Callers :
        ( /\ pc[c] = "done"
          /\ prev[c].op = op[c]
          /\ prev[c].cart = cart[c]
          /\ prev[c].itemId = itemId[c] )
        => /\ result[c].kind = prev[c].result.kind
           /\ ValueOf(c, result[c]) = ValueOf(c, prev[c].result)

\* calculateAverageWithLoop has returned 3 for [1, 2, 3, 4, 5] twice in a row.
C13_Witness ==
    \E c \in Callers :
        /\ Done(c, "calculateAverageWithLoop")
        /\ prev[c].op = "calculateAverageWithLoop"
        /\ NumbersOf(c) = testCases[1]
        /\ result[c] = NumberResult(Num(3))
        /\ prev[c].result = NumberResult(Num(3))

\* Integer sum of the first k elements of S, counted in halves.
HalvesOfPrefix(S, k) == SumOver([j \in 1..k |-> Halves(S[j])], 1..k)

\* The result caller c's call gives when it runs with no other call around.
IsSoloResult(c) ==
    CASE op[c] \in AverageFunctions ->
           /\ result[c].kind = "number"
           /\ IF Len(NumbersOf(c)) = 0 THEN IsNaN(result[c].num)
              ELSE IsMeanOf(result[c].num, NumbersOf(c))
      [] op[c] = "countCartItems" ->
           result[c] = NumberResult(Num(SumOver([k \in 1..Len(CartOf(c)) |->
                           QuantityOf(CartOf(c)[k])], 1..Len(CartOf(c)))))
      [] op[c] = "removeItemFromCart" ->
           /\ result[c].kind = "array"
           /\ IsStableFilterOf(RemovedOf(c), CartOf(c), itemId[c])
      [] op[c] = "meanSquareError" ->
           /\ result[c].kind = "number"
           /\ IF Len(ActualOf(c)) = 0 THEN IsNaN(result[c].num)
              ELSE IsMeanSquareOf(result[c].num, ActualOf(c), PredictedOf(c))

\* The accumulators of caller c's loop hold what c's own iterations put there.
AccumulatorsAreOwn(c) ==
    /\ op[c] = "calculateAverageWithLoop"
       => /\ count[c] = iter[c]
          /\ IsFinite(total[c])
          /\ Halves(total[c]) = HalvesOfPrefix(NumbersOf(c), iter[c])
    /\ op[c] = "countCartItems"
       => totalItems[c] = Num(SumOver([k \in 1..i[c] |-> QuantityOf(CartOf(c)[k])], 1..i[c]))

\* C14: with the steps of several invocations interleaved, each invocation
\* returns what it returns when run alone, and in the middle of a loop total,
\* count, totalItems and i hold what this invocation's own iterations computed:
\* no other invocation's step reads or overwrites them.
C14_InterleavedCallsAreIndependent ==
    \A c \in Callers :
        /\ pc[c] = "loop" => AccumulatorsAreOwn(c)
        /\ pc[c] = "done" => IsSoloResult(c)

\* One caller is in the middle of calculateAverageWithLoop([1, 0.5]) with one
\* element added, while the other has gone through its own loop on [0.5, 1]
\* and returned 0.75.
C14_Witness ==
    \E c, d \in Callers :
        /\ c # d
        /\ At(c, "calculateAverageWithLoop", "loop")
        /\ NumbersOf(c) = <<Num(1), Norm(1, 2)>>
        /\ iter[c] = 1
        /\ total[c] = Num(1)
        /\ Done(d, "calculateAverageWithLoop")
        /\ NumbersOf(d) = <<Norm(1, 2), Num(1)>>
        /\ total[d] = Norm(3, 2)
        /\ result[d] = NumberResult(Norm(3, 4))

\* C15: the average of a one-element array [x] is x, in calculateAverage and
\* in calculateAverageWithLoop; the average of [42] is 42.
C15_AverageOfSingleValue ==
    \A c \in Callers :
        (pc[c] = "done" /\ op[c] \in AverageFunctions /\ Len(NumbersOf(c)) = 1)
        => result[c] = NumberResult(NumbersOf(c)[1])

\* calculateAverageWithLoop and, before it, calculateAverage have returned 42
\* for [42].
C15_Witness ==
    \E c \in Callers :
        /\ Done(c, "calculateAverageWithLoop")
        /\ prev[c].op = "calculateAverage"
        /\ NumbersOf(c) = testCases[3]
        /\ result[c] = NumberResult(Num(42))
        /\ prev[c].result = NumberResult(Num(42))

\* C16: the average of [1.5, 2.5, 3.5] is exactly 2.5 in calculateAverage and
\* in calculateAverageWithLoop: fractions are neither rounded nor truncated.
C16_AverageOfFloats ==
    \A c \in Callers :
        (pc[c] = "done" /\ op[c] \in AverageFunctions /\ NumbersOf(c) = testCases[2])
        => result[c] = NumberResult(Norm(5, 2))

\* calculateAverage and, before it, calculateAverageWithLoop have returned 2.5
\* for [1.5, 2.5, 3.5].
C16_Witness ==
    \E c \in Callers :
        /\ Done(c, "calculateAverage")
        /\ prev[c].op = "calculateAverageWithLoop"
        /\ NumbersOf(c) = testCases[2]
        /\ result[c] = NumberResult(Norm(5, 2))
        /\ prev[c].result = NumberResult(Norm(5, 2))

\* Caller c is inside a function.
InCall(c) == pc[c] \in {"entry", "loop"}

\* The array a function walks over, and how far its loop has come.
WalkedOf(c) ==
    CASE op[c] \in AverageFunctions -> NumbersOf(c)
      [] op[c] \in CartFunctions -> CartOf(c)
      [] op[c] = "meanSquareError" -> ActualOf(c)
      [] OTHER -> << >>

IndexOf(c) == IF op[c] = "countCartItems" THEN i[c] ELSE iter[c]

SumSoFar(c) == IF op[c] = "countCartItems" THEN totalItems[c] ELSE total[c]

ElementOf(c, k) ==
    IF op[c] = "countCartItems" THEN CartOf(c)[k].quantity ELSE NumbersOf(c)[k]

\* An upper bound on the steps caller c's call still takes.
StepsLeft(c) ==
    CASE pc[c] = "entry" -> Len(WalkedOf(c)) + 3
      [] pc[c] = "loop" -> Len(WalkedOf(c)) - IndexOf(c) + 1
      [] OTHER -> 0

\* C17: every call terminates after a single pass over its input: every step
\* of a call brings it nearer to its return, a loop can always take its next
\* step, and the loops of countCartItems and calculateAverageWithLoop start at
\* the first element, take the elements one by one in order, and return only
\* when every element has been taken.
C17_SinglePassTermination ==
    /\ [](\A c \in Callers : pc[c] = "loop" => ENABLED FunctionStep(c))
    /\ [][\A c \in Callers :
            /\ InCall(c) => StepsLeft(c)' < StepsLeft(c)
            /\ (pc[c] = "entry" /\ pc'[c] = "loop") => IndexOf(c)' = 0
            /\ (pc[c] = "loop" /\ pc'[c] = "loop")
               => /\ IndexOf(c) < Len(WalkedOf(c))
                  /\ IndexOf(c)' = IndexOf(c) + 1
                  /\ SumSoFar(c)' = NumAdd(SumSoFar(c), ElementOf(c, IndexOf(c) + 1))
            /\ (pc[c] = "loop" /\ pc'[c] = "done")
               => /\ IndexOf(c) = Len(WalkedOf(c))
                  /\ result'[c].kind = "number"
          ]_vars

\* countCartItems has gone through the three records of the sample cart and
\* returned.
C17_Witness ==
    \E c \in Callers :
        /\ Done(c, "countCartItems")
        /\ CartOf(c) = shoppingCart
        /\ i[c] = 3
        /\ result[c].kind = "number"

\* The records of caller c's cart carry a name and no id, and the id passed is
\* the name of one of them.
RemovesByName(c) ==
    /\ Done(c, "removeItemFromCart")
    /\ \A j \in 1..Len(CartOf(c)) :
           CartOf(c)[j].id = Undefined /\ CartOf(c)[j].name # Undefined
    /\ \E j \in 1..Len(CartOf(c)) : CartOf(c)[j].name = itemId[c]

\* C18 as stated: removing the name of a record from a cart whose records
\* carry a name and no id yields a cart without that record.
C18_NamedRecordIsRemoved ==
    \A c \in Callers :
        RemovesByName(c)
        => \A k \in 1..Len(RemovedOf(c)) : RemovedOf(c)[k].name # itemId[c]

\* C18, amended: removeItemFromCart compares the id field only, so on a cart
\* whose records carry a name and no id, the name of a record removes nothing:
\* the result equals the cart by value.
C18_NameIsNotAnIdentifier ==
    \A c \in Callers : RemovesByName(c) => RemovedOf(c) = CartOf(c)

\* "T-shirt" has been removed from the sample cart, and the T-shirt record is
\* still the first of the three records returned.
C18_Witness ==
    \E c \in Callers :
        /\ RemovesByName(c)
        /\ CartOf(c) = shoppingCart
        /\ itemId[c] = StringVal("T-shirt")
        /\ Len(RemovedOf(c)) = 3
        /\ RemovedOf(c)[1].name = StringVal("T-shirt")

\* Caller c has passed the result of removeItemFromCart(R, x) back with the
\* same x, and that second call has returned.
RemovedTwice(c) ==
    /\ Done(c, "removeItemFromCart")
    /\ prev[c].op = "removeItemFromCart"
    /\ prev[c].result.kind = "array"
    /\ cart[c] = prev[c].result.ref
    /\ itemId[c] = prev[c].itemId

\* C19: removeItemFromCart(removeItemFromCart(R, x), x) equals
\* removeItemFromCart(R, x) by value (and is a different array object).
C19_RemoveIsIdempotent ==
    \A c \in Callers :
        RemovedTwice(c)
        => /\ RemovedOf(c) = heap[c][prev[c].result.ref]
           /\ result[c].ref # prev[c].result.ref

\* An id one of two records carries, first removed from the cart and then
\* removed again from the one record left.
C19_Witness ==
    \E c \in Callers :
        /\ RemovedTwice(c)
        /\ Len(heap[c][prev[c].cart]) = 2
        /\ Occurrences(heap[c][prev[c].cart], itemId[c]) = 1
        /\ Len(CartOf(c)) = 1
        /\ Len(RemovedOf(c)) = 1

\* C20: when k records of R carry the id x, removeItemFromCart(R, x) removes
\* all k of them: the result has length Len(R) - k and holds no record with
\* the id x, for k above 1 too.
C20_RemovesEveryMatch ==
    \A c \in Callers :
        Done(c, "removeItemFromCart")
        => /\ Len(RemovedOf(c)) = Len(CartOf(c)) - Occurrences(CartOf(c), itemId[c])
           /\ Occurrences(RemovedOf(c), itemId[c]) = 0

\* Both records of a cart carried the id, and the result is empty.
C20_Witness ==
    \E c \in Callers :
        /\ Done(c, "removeItemFromCart")
        /\ Len(CartOf(c)) = 2
        /\ Occurrences(CartOf(c), itemId[c]) = 2
        /\ CartOf(c)[1] # CartOf(c)[2]
        /\ RemovedOf(c) = << >>

\* The record at position j of caller c's cart is in the array returned.
Retained(c, j) == \E k \in 1..Len(RemovedOf(c)) : RemovedOf(c)[k] = CartOf(c)[j]

\* C21: removeItemFromCart compares ids by strict equality: a record is removed
\* exactly when its id has the type and the value of the target, so a record
\* with the number 1 as id is retained when the target is the string "1", and
\* a record with no id is retained unless the target is undefined.
C21_StrictEqualityOnIds ==
    \A c \in Callers :
        Done(c, "removeItemFromCart")
        => \A j \in 1..Len(CartOf(c)) :
               LET id == CartOf(c)[j].id
               IN  /\ Retained(c, j) <=> ~(id.t = itemId[c].t /\ id.v = itemId[c].v)
                   /\ (id = NumberVal("1") /\ itemId[c] = StringVal("1")) => Retained(c, j)
                   /\ id = Undefined => (Retained(c, j) <=> itemId[c] # Undefined)

\* The string "1" has been removed from a cart of a record with the number 1
\* as id and a record with no id, and both records are in the result.
C21_Witness ==
    \E c \in Callers :
        /\ Done(c, "removeItemFromCart")
        /\ itemId[c] = StringVal("1")
        /\ Len(CartOf(c)) = 2
        /\ CartOf(c)[1].id = NumberVal("1")
        /\ CartOf(c)[2].id = Undefined
        /\ Retained(c, 1) /\ Retained(c, 2)
        /\ Len(RemovedOf(c)) = 2

\* C22: when predicted is longer than actual, meanSquareError returns the mean
\* of the squared errors over the first Len(actual) positions, whatever the
\* surplus elements of predicted are (for an empty actual that mean is 0 / 0,
\* NaN); when predicted is shorter than actual, the result is NaN.
C22_SurplusIgnoredShortfallNaN ==
    \A c \in Callers :
        Done(c, "meanSquareError")
        => /\ Len(PredictedOf(c)) > Len(ActualOf(c))
              => IF Len(ActualOf(c)) > 0
                 THEN IsMeanSquareOf(result[c].num, ActualOf(c),
                                     SubSeq(PredictedOf(c), 1, Len(ActualOf(c))))
                 ELSE IsNaN(result[c].num)
           /\ Len(PredictedOf(c)) < Len(ActualOf(c))
              => result[c] = NumberResult(NaN)

\* meanSquareError([2], [-1, 0.5]) has returned (2 - (-1))^2 / 1 = 9.
C22_Witness ==
    \E c \in Callers :
        /\ Done(c, "meanSquareError")
        /\ ActualOf(c) = <<Num(2)>>
        /\ PredictedOf(c) = <<Num(-1), Norm(1, 2)>>
        /\ result[c] = NumberResult(Num(9))

\* x < 0 (-Infinity included; NaN is not).
IsNegative(x) == x.n < 0

\* caller c's meanSquareError call on non-empty arrays of one length has returned.
MeanSquareErrorOfEqualLengths(c) ==
    /\ Done(c, "meanSquareError")
    /\ Len(ActualOf(c)) > 0
    /\ Len(ActualOf(c)) = Len(PredictedOf(c))

\* x and y differ by so little that the square of x - y is below the smallest
\* binary64 magnitude and rounds to 0.
SquareOfDifferenceUnderflows(x, y) ==
    LET diff == NumSub(x, y) IN IsFinite(diff) /\ diff.n # 0 /\ diff.e = -1

\* C23 as stated: for equal-length non-empty arrays meanSquareError is never
\* negative, and it is 0 exactly when actual and predicted are equal at every
\* position.
C23_ZeroExactlyWhenEqual ==
    \A c \in Callers :
        MeanSquareErrorOfEqualLengths(c)
        => /\ ~IsNegative(result[c].num)
           /\ result[c].num = Zero <=> ActualOf(c) = PredictedOf(c)

\* C23, amended: for equal-length non-empty arrays of finite numbers
\* meanSquareError is a number that is never negative; it is 0 when actual and
\* predicted are equal at every position, and otherwise only when every
\* difference is so small that its square underflows to 0.
C23_ZeroWhenEqualOrUnderflow ==
    \A c \in Callers :
        MeanSquareErrorOfEqualLengths(c)
        => /\ result[c].kind = "number"
           /\ ~IsNaN(result[c].num)
           /\ ~IsNegative(result[c].num)
           /\ ActualOf(c) = PredictedOf(c) => result[c].num = Zero
           /\ result[c].num = Zero
              <=> \A k \in 1..Len(ActualOf(c)) :
                      \/ ActualOf(c)[k] = PredictedOf(c)[k]
                      \/ SquareOfDifferenceUnderflows(ActualOf(c)[k], PredictedOf(c)[k])

\* meanSquareError([2^-1023, 1], [0, 1]) has returned 0 for arrays that differ
\* at the first position.
C23_Witness ==
    \E c \in Callers :
        /\ MeanSquareErrorOfEqualLengths(c)
        /\ ActualOf(c) = <<Tiny, Num(1)>>
        /\ PredictedOf(c) = <<Zero, Num(1)>>
        /\ result[c] = NumberResult(Zero)

\* |x| <= |y| for numbers other than NaN and 0.
MagnitudeLeq(x, y) ==
    LET ex == IF x.d = 0 THEN 2 ELSE x.e
        ey == IF y.d = 0 THEN 2 ELSE y.e
    IN  \/ ex < ey
        \/ ex = ey /\ (x.d = 0 \/ Abs(x.n) * y.d <= Abs(y.n) * x.d)

\* x <= y for numbers other than NaN.
NumLeq(x, y) ==
    IF Sign(x.n) # Sign(y.n) THEN Sign(x.n) < Sign(y.n)
    ELSE IF x.n = 0 THEN TRUE
    ELSE IF x.n > 0 THEN MagnitudeLeq(x, y)
    ELSE MagnitudeLeq(y, x)

\* min(S) <= x <= max(S)
BetweenMinAndMax(x, S) ==
    /\ \E k \in 1..Len(S) : NumLeq(S[k], x)
    /\ \E k \in 1..Len(S) : NumLeq(x, S[k])

\* An average function has returned to caller c for a non-empty array.
AverageOfNonEmpty(c) ==
    pc[c] = "done" /\ op[c] \in AverageFunctions /\ Len(NumbersOf(c)) > 0

\* C24 as stated: for every non-empty array of numbers the average lies
\* between the smallest and the largest element, in both average functions.
C24_AverageBetweenMinAndMax ==
    \A c \in Callers :
        AverageOfNonEmpty(c)
        => /\ ~IsNaN(result[c].num)
           /\ BetweenMinAndMax(result[c].num, NumbersOf(c))

\* C24, amended: for every non-empty array of finite numbers whose sum is
\* not rounded (here: ordinary integers, and numbers of the largest and the
\* smallest magnitude) the average is a number; when the sum stays below
\* 2^1024 in magnitude it is finite and lies between the smallest and the
\* largest element; it is an Infinity, outside that range, only for arrays
\* with elements of magnitude 2^1023 or more.
C24_AverageBetweenUnlessOverflow ==
    \A c \in Callers :
        AverageOfNonEmpty(c)
        => /\ result[c].kind = "number"
           /\ ~IsNaN(result[c].num)
           /\ IsFinite(result[c].num)
              => BetweenMinAndMax(result[c].num, NumbersOf(c))
           /\ ~IsFinite(result[c].num)
              => \E k \in 1..Len(NumbersOf(c)) : NumbersOf(c)[k].e = 1

\* calculateAverageWithLoop([2^1023, 2^1023]) has returned Infinity.
C24_Witness ==
    \E c \in Callers :
        /\ Done(c, "calculateAverageWithLoop")
        /\ NumbersOf(c) = <<Huge, Huge>>
        /\ result[c] = NumberResult(Norm(1, 0))

\* Every quantity of R is an ordinary integer.
IntegerQuantities(R) ==
    \A k \in 1..Len(R) : R[k].quantity.e = 0 /\ R[k].quantity.d = 1

\* r holds the records of R in some order: every record occurs as often in r
\* as in R.
IsPermutationOf(r, R) ==
    /\ Len(r) = Len(R)
    /\ \A k \in 1..Len(R) :
           Cardinality({j \in 1..Len(r) : r[j] = R[k]})
               = Cardinality({j \in 1..Len(R) : R[j] = R[k]})

\* The cart caller c counted in its earlier call.
EarlierCartOf(c) == heap[c][prev[c].cart]

\* Caller c has counted A and then A ++ B, and caller d has counted B.
CountedConcatenation(c, d) ==
    /\ c # d
    /\ Done(c, "countCartItems") /\ Done(d, "countCartItems")
    /\ prev[c].op = "countCartItems"
    /\ CartOf(c) = EarlierCartOf(c) \o CartOf(d)

\* Caller c has counted a cart and then its records in another order.
CountedPermutation(c) ==
    /\ Done(c, "countCartItems")
    /\ prev[c].op = "countCartItems"
    /\ IsPermutationOf(CartOf(c), EarlierCartOf(c))

\* C25 as stated: for all carts A and B countCartItems(A ++ B) =
\* countCartItems(A) + countCartItems(B), and any permutation of a cart gives
\* the same count.
C25_AdditiveAndOrderIndependent ==
    \A c \in Callers :
        /\ \A d \in Callers :
               CountedConcatenation(c, d)
               => result[c].num = NumAdd(prev[c].result.num, result[d].num)
        /\ CountedPermutation(c) => result[c] = prev[c].result

\* C25, amended: for carts whose quantities are integers (with sums that
\* binary64 holds exactly) countCartItems(A ++ B) = countCartItems(A) +
\* countCartItems(B), and any permutation of such a cart gives the same count.
C25_AdditiveOnIntegerQuantities ==
    \A c \in Callers :
        /\ \A d \in Callers :
               (CountedConcatenation(c, d) /\ IntegerQuantities(CartOf(c)))
               => /\ result[c].kind = "number"
                  /\ result[c].num = NumAdd(prev[c].result.num, result[d].num)
        /\ (CountedPermutation(c) /\ IntegerQuantities(CartOf(c)))
           => result[c] = prev[c].result

\* The sample cart (6 items) followed by a record of quantity 2 has been
\* counted as 8, next to the counts 6 and 2.
C25_Witness ==
    \E c \in Callers, d \in Callers :
        /\ CountedConcatenation(c, d)
        /\ EarlierCartOf(c) = shoppingCart
        /\ Len(CartOf(d)) = 1
        /\ prev[c].result = NumberResult(Num(6))
        /\ result[d] = NumberResult(Num(2))
        /\ result[c] = NumberResult(Num(8))

\* C26: in calculateAverageWithLoop, after each iteration count is the number
\* of elements consumed so far and total is their sum (counted in halves, on
\* integers); when the loop has ended count is numbers.length, so the divisor
\* of total / count is 0 only for the empty array.
C26_LoopCountsAndSums ==
    \A c \in Callers :
        (op[c] = "calculateAverageWithLoop" /\ pc[c] \in {"loop", "done"})
        => /\ count[c] = iter[c]
           /\ count[c] \in 0..Len(NumbersOf(c))
           /\ IsFinite(total[c])
           /\ total[c].n * 2 = total[c].d * HalvesOfPrefix(NumbersOf(c), count[c])
           /\ pc[c] = "done"
              => /\ count[c] = Len(NumbersOf(c))
                 /\ count[c] = 0 <=> NumbersOf(c) = << >>
                 /\ result[c] = NumberResult(NumDiv(total[c], Num(count[c])))

\* Two of the three elements of [0, 2, -1] have been consumed: count is 2 and
\* total is 2.
C26_Witness ==
    \E c \in Callers :
        /\ At(c, "calculateAverageWithLoop", "loop")
        /\ NumbersOf(c) = <<Zero, Num(2), Num(-1)>>
        /\ count[c] = 2
        /\ total[c] = Num(2)

\* C27: for every user with a frontend record isFrontendDeveloper returns the
\* boolean true when html, css and javascript of the record are all truthy
\* and the boolean false otherwise, and never a value that is not a boolean.
C27_TrueExactlyWhenAllTruthy ==
    \A c \in Callers :
        (Done(c, "isFrontendDeveloper") /\ user[c].frontend # Undefined)
        => LET Truthy(a) == a \notin {BooleanVal("false"), Undefined, NumberVal("0"),
                                       StringVal("")}
               all == /\ Truthy(user[c].frontend.html)
                      /\ Truthy(user[c].frontend.css)
                      /\ Truthy(user[c].frontend.javascript)
           IN  /\ result[c].kind = "boolean"
               /\ result[c].val \in {BooleanVal("true"), BooleanVal("false")}
               /\ result[c].val = BooleanVal("true") <=> all
               /\ user[c] = sampleUser => result[c].val = BooleanVal("true")

\* isFrontendDeveloper has returned false for a user whose html and css are
\* true and whose javascript is the empty string.
C27_Witness ==
    \E c \in Callers :
        /\ Done(c, "isFrontendDeveloper")
        /\ user[c].frontend = [html |-> BooleanVal("true"), css |-> BooleanVal("true"),
                               javascript |-> StringVal("")]
        /\ result[c].val = BooleanVal("false")

====
